---- MODULE Spec2Model ----
(***************************************************************************)
(* wtime: a work-time log.  The Stamp table of an SQLite database holds    *)
(* check-in and check-out stamps (src/src/db.rs); App (src/src/app.rs)     *)
(* appends stamps through do_checkin / do_checkout and sums the worked     *)
(* time with get_total_from.                                               *)
(*                                                                         *)
(* An instant is a number of microseconds since the start of the modelled  *)
(* minute.  The table stores it as text (RFC 3339) and SQLite compares     *)
(* that text byte by byte; the model keeps the part of the text that       *)
(* differs between two instants of the same minute: the two digits of the  *)
(* seconds, the optional fraction and the sign that starts the offset.     *)
(***************************************************************************)
EXTENDS Integers, Sequences, FiniteSets, TLC

\* Largest rowid the model lets the table reach.
MaxId == 4

\* Largest rowid up to which stamps are inserted directly and deleted.
MaxAdminId == 3

\* Largest rowid up to which stored stamps are corrected.
MaxUpdateId == 1

\* Last second of the modelled timeline.
MaxSec == 1

\* Number of processes that run the program against the same database file.
NumProcs == 2

\* Microseconds in a second (chrono's timestamps, cut at the microsecond).
MicrosPerSec == 1000000

\* The sub-second parts the clock can show.
FracMicros == {0, 500000}

\* The instants of the modelled timeline.
Times == {s * MicrosPerSec + f : s \in 0..MaxSec, f \in FracMicros}

\* The first instant of the timeline ("epoch" for the aggregation).
Epoch == CHOOSE t \in Times : \A u \in Times : t <= u

----------------------------------------------------------------------------
(* Option and Result values *)

None == [tag |-> "None"]

Some(v) == [tag |-> "Some", val |-> v]

Ok(v) == [tag |-> "Ok", val |-> v]

Err(e) == [tag |-> "Err", val |-> e]

\* Result::ok(): keeps the value, drops the error.
ok(r) == IF r.tag = "Ok" THEN Some(r.val) ELSE None

----------------------------------------------------------------------------
(* enum InOut and its text form *)

In == "InOut::In"

Out == "InOut::Out"

InOut == {In, Out}

\* impl Display for InOut
fmt(in_out) == IF in_out = In THEN "In" ELSE "Out"

\* The spellings that trim().to_lowercase() maps to "in" and to "out".
SpelledIn == {"In", "in", "IN", "   In ", " in   "}

SpelledOut == {"Out", "out", "OUT", " oUt ", " out  "}

\* impl FromStr for InOut
from_str(s) ==
    IF s \in SpelledIn THEN Ok(In)
    ELSE IF s \in SpelledOut THEN Ok(Out)
    ELSE Err("ParseInOutError")

----------------------------------------------------------------------------
(* RFC 3339 text of an instant, as a sequence of character codes *)

PlusChar == 43

DotChar == 46

ZeroChar == 48

Digit(d) == ZeroChar + d

\* n written with exactly w digits
RECURSIVE Digits(_, _)
Digits(n, w) ==
    IF w = 0 THEN <<>> ELSE Append(Digits(n \div 10, w - 1), Digit(n % 10))

\* the number a sequence of digits denotes
RECURSIVE DigitsVal(_)
DigitsVal(ds) ==
    IF ds = <<>> THEN 0
    ELSE 10 * DigitsVal(SubSeq(ds, 1, Len(ds) - 1)) + (ds[Len(ds)] - ZeroChar)

RECURSIVE Pow10(_)
Pow10(n) == IF n = 0 THEN 1 ELSE 10 * Pow10(n - 1)

\* to_rfc3339 that writes whole seconds only (SecondsFormat::Secs)
to_rfc3339_secs(date) ==
    Digits(date \div MicrosPerSec, 2) \o <<PlusChar>>

\* DateTime::to_rfc3339 (SecondsFormat::AutoSi): no fraction when the
\* sub-second part is zero, else three digits when it is whole milliseconds,
\* else six.
to_rfc3339(date) ==
    LET secs == date \div MicrosPerSec
        micros == date % MicrosPerSec
        frac == IF micros = 0 THEN <<>>
                ELSE IF micros % 1000 = 0
                     THEN <<DotChar>> \o Digits(micros \div 1000, 3)
                     ELSE <<DotChar>> \o Digits(micros, 6)
    IN Digits(secs, 2) \o frac \o <<PlusChar>>

IsDigits(ds) == \A i \in 1..Len(ds) : ds[i] \in ZeroChar..(ZeroChar + 9)

\* what DateTime::parse_from_rfc3339 accepts
IsRfc3339(text) ==
    /\ Len(text) >= 3
    /\ text[Len(text)] = PlusChar
    /\ IsDigits(SubSeq(text, 1, 2))
    /\ \/ Len(text) = 3
       \/ /\ Len(text) >= 5
          /\ text[3] = DotChar
          /\ IsDigits(SubSeq(text, 4, Len(text) - 1))
          /\ Len(text) - 4 <= 6

\* DateTime::parse_from_rfc3339(..).into()
parse_from_rfc3339(text) ==
    LET frac == SubSeq(text, 4, Len(text) - 1)
    IN DigitsVal(SubSeq(text, 1, 2)) * MicrosPerSec
       + (IF Len(text) = 3 THEN 0 ELSE DigitsVal(frac) * Pow10(6 - Len(frac)))

\* SQLite's BINARY collation on TEXT: memcmp, then the shorter text first.
\* -1, 0 or 1 as a is less than, equal to or greater than b.
RECURSIVE TextCmp(_, _)
TextCmp(a, b) ==
    IF a = <<>> THEN (IF b = <<>> THEN 0 ELSE -1)
    ELSE IF b = <<>> THEN 1
    ELSE IF Head(a) < Head(b) THEN -1
    ELSE IF Head(a) > Head(b) THEN 1
    ELSE TextCmp(Tail(a), Tail(b))

----------------------------------------------------------------------------
(* State *)

VARIABLES
    stampTable,   \* table Stamp: rowid -> [datetime: text, in_out: text]
    clock,        \* what Utc::now() returns
    op,           \* the operation that ran last
    result,       \* what it returned: "Ok" or the error
    stamp,        \* the in-memory Stamp it left (Option)
    work_time,    \* the duration do_checkout printed (Option)
    resume,       \* the totals print_resume computed (Option)
    visited,      \* the stamps a StampIterator yielded
    pc            \* where each running process is in its check-in/check-out

\* the processes
Procs == 1..NumProcs

\* a process that is not inside a check-in or check-out
Idle == [at |-> "idle", in_out |-> "none"]

\* a process that passed the guard of a check-in or check-out and has not
\* run its INSERT yet
Inserting(in_out) == [at |-> "insert", in_out |-> in_out]

vars ==
    <<stampTable, clock, op, result, stamp, work_time, resume, visited, pc>>

----------------------------------------------------------------------------
(* db.rs: struct Stamp and the table *)

\* Stamp::new
Stamp(id, date, in_out) == [id |-> id, date |-> date, in_out |-> in_out]

\* check_in with the direction of check_out
check_in_as_out(now) == Stamp(0, now, Out)

\* Stamp::check_in
check_in(now) == Stamp(0, now, In)

\* Stamp::check_out
check_out(now) == Stamp(0, now, Out)

Max(S) == CHOOSE m \in S : \A i \in S : i <= m

Min(S) == CHOOSE m \in S : \A i \in S : m <= i

\* "SELECT count(id) FROM Stamp" in place of max(id)
max_id_as_count(conn) == Cardinality(DOMAIN conn)

\* "SELECT max(id) FROM Stamp" read as i64: the one row of the aggregate
\* holds NULL on an empty table, which reads as 0.
max_id(conn) == IF DOMAIN conn = {} THEN 0 ELSE Max(DOMAIN conn)

\* rowids that start at 0 on an empty table
next_rowid_zero_based(conn) ==
    IF DOMAIN conn = {} THEN 0 ELSE Max(DOMAIN conn) + 1

\* The rowid SQLite gives a new row of an INTEGER PRIMARY KEY table:
\* one more than the largest rowid in the table, 1 on an empty table.
next_rowid(conn) == IF DOMAIN conn = {} THEN 1 ELSE Max(DOMAIN conn) + 1

\* a row read back as a Stamp
read_row(conn, id) ==
    IF ~IsRfc3339(conn[id].datetime) THEN Err("ParseError")
    ELSE Ok(Stamp(id, parse_from_rfc3339(conn[id].datetime),
                  from_str(conn[id].in_out).val))

\* Stamp::get
get(conn, id) ==
    IF id \notin DOMAIN conn THEN Err("NoSuchEntry") ELSE read_row(conn, id)

\* insert that does not read last_insert_rowid(): the stamp keeps id 0
insert_no_rowid(conn, s) ==
    LET rowid == next_rowid(conn)
        row == [datetime |-> to_rfc3339(s.date), in_out |-> fmt(s.in_out)]
    IN [conn |-> [i \in DOMAIN conn \cup {rowid} |->
                     IF i = rowid THEN row ELSE conn[i]],
        stamp |-> s]

\* insert that reuses the largest rowid instead of taking a new one
insert_overwrite(conn, s) ==
    LET rowid == IF DOMAIN conn = {} THEN 1 ELSE Max(DOMAIN conn)
        row == [datetime |-> to_rfc3339(s.date), in_out |-> fmt(s.in_out)]
    IN [conn |-> [i \in DOMAIN conn \cup {rowid} |->
                     IF i = rowid THEN row ELSE conn[i]],
        stamp |-> [s EXCEPT !.id = rowid]]

\* Stamp::insert: the new table and the stamp with its id set
insert(conn, s) ==
    LET rowid == next_rowid(conn)
        row == [datetime |-> to_rfc3339(s.date), in_out |-> fmt(s.in_out)]
    IN [conn |-> [i \in DOMAIN conn \cup {rowid} |->
                     IF i = rowid THEN row ELSE conn[i]],
        stamp |-> [s EXCEPT !.id = rowid]]

\* Stamp::update: "UPDATE Stamp SET ... WHERE id = .."
update(conn, s) ==
    [i \in DOMAIN conn |->
        IF i = s.id
        THEN [datetime |-> to_rfc3339(s.date), in_out |-> fmt(s.in_out)]
        ELSE conn[i]]

\* Stamp::delete: "DELETE FROM Stamp WHERE ID = .."
delete(conn, s) == [i \in DOMAIN conn \ {s.id} |-> conn[i]]

\* previous that steps back two identities
previous_by_two(conn, s) == ok(get(conn, s.id - 2))

\* Stamp::previous
previous(conn, s) == ok(get(conn, s.id - 1))

\* Stamp::first
first(conn) == ok(get(conn, 1))

\* last that reads the row of the smallest rowid
last_as_first(conn) ==
    IF DOMAIN conn = {} THEN None ELSE ok(get(conn, Min(DOMAIN conn)))

\* Stamp::last
last(conn) == LET last_id == max_id(conn) IN ok(get(conn, last_id))

\* get_after with the comparison turned round: "datetime <= .."
get_after_before(conn, initial_date) ==
    LET text == to_rfc3339(initial_date)
        rows == {i \in DOMAIN conn : TextCmp(conn[i].datetime, text) <= 0}
    IN IF rows = {} THEN Err("NoSuchEntry") ELSE read_row(conn, Min(rows))

\* get_after with a strict comparison: "datetime > .."
get_after_strict(conn, initial_date) ==
    LET text == to_rfc3339(initial_date)
        rows == {i \in DOMAIN conn : TextCmp(conn[i].datetime, text) > 0}
    IN IF rows = {} THEN Err("NoSuchEntry") ELSE read_row(conn, Min(rows))

\* Stamp::get_after: the first row, in rowid order, of
\* "SELECT .. WHERE datetime >= '<initial_date>'"
get_after(conn, initial_date) ==
    LET text == to_rfc3339(initial_date)
        rows == {i \in DOMAIN conn : TextCmp(conn[i].datetime, text) >= 0}
    IN IF rows = {} THEN Err("NoSuchEntry") ELSE read_row(conn, Min(rows))

\* delta as the plain signed difference other - self
delta_signed(self, other) == other.date - self.date

\* Stamp::delta
delta(self, other) ==
    IF other.date > self.date THEN other.date - self.date
    ELSE self.date - other.date

\* an iterator that steps over a missing rowid instead of ending there
RECURSIVE StampIterator_skipping(_, _)
StampIterator_skipping(conn, current_index) ==
    LET s == get(conn, current_index)
    IN IF s.tag = "Ok"
       THEN <<s.val>> \o StampIterator_skipping(conn, current_index + 1)
       ELSE IF \E i \in DOMAIN conn : i > current_index
            THEN StampIterator_skipping(conn, current_index + 1)
            ELSE <<>>

\* StampIterator::next, called until it returns None: the stamps yielded
\* by an iterator whose current_index is current_index.
RECURSIVE StampIterator(_, _)
StampIterator(conn, current_index) ==
    LET s == get(conn, current_index)
    IN IF s.tag = "Ok"
       THEN <<s.val>> \o StampIterator(conn, current_index + 1)
       ELSE <<>>

\* Stamp::iter
iter(conn, s) == StampIterator(conn, s.id)

----------------------------------------------------------------------------
(* app.rs *)

\* the loop that adds the time between any two stamps, whatever their
\* directions
RECURSIVE sum_stamps_any_pair(_, _, _)
sum_stamps_any_pair(stamps, possible_last, total) ==
    IF stamps = <<>> THEN total
    ELSE LET s == Head(stamps)
             t == IF possible_last.tag = "Some"
                  THEN total + (s.date - possible_last.val.date)
                  ELSE total
         IN sum_stamps_any_pair(Tail(stamps), Some(s), t)

\* the loop that remembers the last check-in seen, not the last stamp:
\* every check-out is paired with the nearest check-in before it
RECURSIVE sum_stamps_last_in(_, _, _)
sum_stamps_last_in(stamps, possible_last, total) ==
    IF stamps = <<>> THEN total
    ELSE LET s == Head(stamps)
             t == IF /\ possible_last.tag = "Some"
                     /\ possible_last.val.in_out = In
                     /\ s.in_out = Out
                  THEN total + (s.date - possible_last.val.date)
                  ELSE total
         IN sum_stamps_last_in(Tail(stamps),
                               IF s.in_out = In THEN Some(s) ELSE possible_last,
                               t)

\* the loop of get_total_from over the stamps still to visit
RECURSIVE sum_stamps(_, _, _)
sum_stamps(stamps, possible_last, total) ==
    IF stamps = <<>> THEN total
    ELSE LET s == Head(stamps)
             t == IF /\ possible_last.tag = "Some"
                     /\ possible_last.val.in_out = In
                     /\ s.in_out = Out
                  THEN total + (s.date - possible_last.val.date)
                  ELSE total
         IN sum_stamps(Tail(stamps), Some(s), t)

\* get_total_from that sums the whole table when no stamp is at or after from
get_total_from_whole(conn, from) ==
    LET found == get_after(conn, from)
    IN IF found.tag # "Ok"
       THEN sum_stamps(StampIterator(conn, 1), None, 0)
       ELSE sum_stamps(iter(conn, found.val), None, 0)

\* get_total_from that steps back to the check-in of a session open at
\* from, so that a session spanning from is counted whole
get_total_from_spanning(conn, from) ==
    LET found == get_after(conn, from)
    IN IF found.tag # "Ok" THEN 0
       ELSE LET before == previous(conn, found.val)
                start == IF /\ before.tag = "Some"
                            /\ before.val.in_out = In
                            /\ found.val.in_out = Out
                         THEN before.val ELSE found.val
            IN sum_stamps(iter(conn, start), None, 0)

\* App::get_total_from
get_total_from(conn, from) ==
    LET found == get_after(conn, from)
    IN IF found.tag # "Ok" THEN 0
       ELSE sum_stamps(iter(conn, found.val), None, 0)

\* Duration::num_seconds, num_minutes, num_hours of a duration held in
\* microseconds (none is negative here: the durations come from delta)
num_seconds(d) == d \div MicrosPerSec

num_minutes(d) == num_seconds(d) \div 60

num_hours(d) == num_seconds(d) \div 3600

\* the operator & of i64 on two values that are not negative
RECURSIVE BitAnd(_, _)
BitAnd(a, b) ==
    IF a = 0 \/ b = 0 THEN 0
    ELSE (a % 2) * (b % 2) + 2 * BitAnd(a \div 2, b \div 2)

\* the three figures do_checkout prints in "You worked {} hours, {} minutes
\* and {} seconds"
worked_figures(work) ==
    [hours |-> num_hours(work),
     minutes |-> num_minutes(work) % 60,
     seconds |-> BitAnd(num_seconds(work), 60)]

\* can the table take one more row within the model's bound
HasRoom == next_rowid(stampTable) <= MaxId

\* do_checkin without the check of the last stamp
do_checkin_unguarded ==
    /\ op' = "do_checkin"
    /\ work_time' = None
    /\ resume' = None
    /\ visited' = <<>>
    /\ UNCHANGED <<clock, pc>>
    /\ HasRoom
    /\ LET r == insert(stampTable, check_in(clock))
       IN /\ stampTable' = r.conn
          /\ stamp' = Some(r.stamp)
    /\ result' = "Ok"

\* App::do_checkin
do_checkin ==
    LET last_stamp == last(stampTable)
    IN /\ op' = "do_checkin"
       /\ work_time' = None
       /\ resume' = None
       /\ visited' = <<>>
       /\ UNCHANGED <<clock, pc>>
       /\ IF last_stamp.tag = "Some" /\ last_stamp.val.in_out = In
          THEN /\ result' = "AlreadyCheckedIn"
               /\ stamp' = None
               /\ UNCHANGED stampTable
          ELSE /\ HasRoom
               /\ LET r == insert(stampTable, check_in(clock))
                  IN /\ stampTable' = r.conn
                     /\ stamp' = Some(r.stamp)
               /\ result' = "Ok"

\* do_checkout that also rejects the call when there is no last stamp
do_checkout_strict ==
    LET last_stamp == last(stampTable)
    IN /\ op' = "do_checkout"
       /\ resume' = None
       /\ visited' = <<>>
       /\ UNCHANGED <<clock, pc>>
       /\ IF last_stamp.tag = "None"
             \/ (last_stamp.tag = "Some" /\ last_stamp.val.in_out = Out)
          THEN /\ result' = "AlreadyCheckedOut"
               /\ stamp' = None
               /\ work_time' = None
               /\ UNCHANGED stampTable
          ELSE /\ HasRoom
               /\ LET r == insert(stampTable, check_out(clock))
                      checkin == previous(r.conn, r.stamp)
                  IN /\ stampTable' = r.conn
                     /\ stamp' = Some(r.stamp)
                     /\ work_time' = IF checkin.tag = "Some"
                                     THEN Some(delta(checkin.val, r.stamp))
                                     ELSE None
               /\ result' = "Ok"

\* App::do_checkout
do_checkout ==
    LET last_stamp == last(stampTable)
    IN /\ op' = "do_checkout"
       /\ resume' = None
       /\ visited' = <<>>
       /\ UNCHANGED <<clock, pc>>
       /\ IF last_stamp.tag = "Some" /\ last_stamp.val.in_out = Out
          THEN /\ result' = "AlreadyCheckedOut"
               /\ stamp' = None
               /\ work_time' = None
               /\ UNCHANGED stampTable
          ELSE /\ HasRoom
               /\ LET r == insert(stampTable, check_out(clock))
                      checkin == previous(r.conn, r.stamp)
                  IN /\ stampTable' = r.conn
                     /\ stamp' = Some(r.stamp)
                     /\ work_time' = IF checkin.tag = "Some"
                                     THEN Some(delta(checkin.val, r.stamp))
                                     ELSE None
               /\ result' = "Ok"

\* App::print_resume, as App::do_list calls it.  beginning_of_day and
\* beginning_of_week come from the calendar: whole seconds, not after now,
\* the week starting no later than the day.
do_list ==
    \E begin_of_day, begin_of_week \in Times :
        /\ begin_of_day % MicrosPerSec = 0
        /\ begin_of_week % MicrosPerSec = 0
        /\ begin_of_week <= begin_of_day
        /\ begin_of_day <= clock
        /\ LET day_total == get_total_from(stampTable, begin_of_day)
               week_total == get_total_from(stampTable, begin_of_week)
           IN resume' = Some([day_total |-> day_total,
                              week_total |-> week_total,
                              week_shown |-> week_total # day_total])
        /\ op' = "do_list"
        /\ result' = "Ok"
        /\ stamp' = None
        /\ work_time' = None
        /\ visited' = <<>>
        /\ UNCHANGED <<stampTable, clock, pc>>

\* Time passes between two runs of the program: the clock (Utc::now) moves
\* to the next instant of the timeline.  It is never set back, so two calls
\* may read the same instant but never a decreasing pair.
Tick ==
    /\ \E t \in Times :
          /\ t > clock
          /\ \A u \in Times : u > clock => t <= u
          /\ clock' = t
    /\ UNCHANGED <<stampTable, op, result, stamp, work_time, resume, visited,
                   pc>>

----------------------------------------------------------------------------
(* db.rs used directly, as the tests of the crate do *)

\* Stamp::check_in().insert(conn) / Stamp::check_out().insert(conn)
stamp_insert ==
    \E in_out \in InOut :
        /\ next_rowid(stampTable) <= MaxAdminId
        /\ LET r == insert(stampTable, Stamp(0, clock, in_out))
           IN /\ stampTable' = r.conn
              /\ stamp' = Some(r.stamp)
        /\ op' = "insert"
        /\ result' = "Ok"
        /\ work_time' = None
        /\ resume' = None
        /\ visited' = <<>>
        /\ UNCHANGED <<clock, pc>>

\* s.update(conn) for a stamp s with any id, date and direction
stamp_update ==
    \E id \in 1..MaxUpdateId, date \in Times, in_out \in InOut :
        /\ max_id(stampTable) <= MaxUpdateId
        /\ stampTable' = update(stampTable, Stamp(id, date, in_out))
        /\ op' = "update"
        /\ result' = "Ok"
        /\ stamp' = None
        /\ work_time' = None
        /\ resume' = None
        /\ visited' = <<>>
        /\ UNCHANGED <<clock, pc>>

\* s.delete(conn) for a stamp s with any id
stamp_delete ==
    \E id \in 1..MaxAdminId :
        /\ max_id(stampTable) <= MaxAdminId
        /\ stampTable' = delete(stampTable, Stamp(id, clock, In))
        /\ op' = "delete"
        /\ result' = "Ok"
        /\ stamp' = None
        /\ work_time' = None
        /\ resume' = None
        /\ visited' = <<>>
        /\ UNCHANGED <<clock, pc>>

\* for s in start.iter(conn) { .. } for a stamp start read from the table
stamp_iter ==
    \E id \in DOMAIN stampTable :
        /\ visited' = iter(stampTable, get(stampTable, id).val)
        /\ op' = "iter"
        /\ result' = "Ok"
        /\ stamp' = ok(get(stampTable, id))
        /\ work_time' = None
        /\ resume' = None
        /\ UNCHANGED <<stampTable, clock, pc>>

----------------------------------------------------------------------------
(* Specifications *)

\* App::new on a file that does not exist: Stamp::create, an empty table.
Init ==
    /\ stampTable = <<>>
    /\ clock = Epoch
    /\ op = "new"
    /\ result = "Ok"
    /\ stamp = None
    /\ work_time = None
    /\ resume = None
    /\ visited = <<>>
    /\ pc = [p \in Procs |-> Idle]

\* The program: each run is one of check-in, check-out or the summary.
Next == do_checkin \/ do_checkout \/ do_list \/ Tick

Spec == Init /\ [][Next]_vars

\* Check-in and check-out on a table whose rows are also removed, with the
\* iteration the crate offers over what is left.
NextDb ==
    \/ do_checkin
    \/ do_checkout
    \/ Tick
    \/ stamp_delete
    \/ stamp_iter

SpecDb == Init /\ [][NextDb]_vars

\* Check-in and check-out on a table whose rows are also corrected.
NextUpdate ==
    \/ do_checkin
    \/ do_checkout
    \/ Tick
    \/ stamp_update

SpecUpdate == Init /\ [][NextUpdate]_vars

\* Check-in and check-out on a table that also receives stamps inserted
\* without the check of the last direction.
NextInsert ==
    \/ do_checkin
    \/ do_checkout
    \/ Tick
    \/ stamp_insert

SpecInsert == Init /\ [][NextInsert]_vars

\* A datetime text that parse_from_rfc3339 rejects: the seconds with the
\* offset cut off.
MalformedText == <<ZeroChar, ZeroChar>>

\* The datetime column is plain TEXT: a stored row whose datetime is
\* overwritten, outside the program, by a text that is not RFC 3339.
store_corrupt ==
    \E id \in 1..MaxAdminId :
        /\ id \in DOMAIN stampTable
        /\ max_id(stampTable) <= MaxAdminId
        /\ stampTable' = [stampTable EXCEPT ![id].datetime = MalformedText]
        /\ op' = "corrupt"
        /\ result' = "Ok"
        /\ stamp' = None
        /\ work_time' = None
        /\ resume' = None
        /\ visited' = <<>>
        /\ UNCHANGED <<clock, pc>>

\* Check-in and check-out on a table whose rows can hold a malformed
\* datetime.
NextFault ==
    \/ do_checkin
    \/ do_checkout
    \/ Tick
    \/ store_corrupt

SpecFault == Init /\ [][NextFault]_vars

\* App::do_checkin / App::do_checkout of process p up to the insert: the
\* statement of Stamp::last has run and the guard was evaluated on its
\* result.  No transaction is open, so the other process may run its own
\* statements before this one's INSERT.
proc_guard(p) ==
    \E in_out \in InOut :
        LET last_stamp == last(stampTable)
        IN /\ pc[p] = Idle
           /\ op' = IF in_out = In THEN "do_checkin" ELSE "do_checkout"
           /\ stamp' = None
           /\ work_time' = None
           /\ resume' = None
           /\ visited' = <<>>
           /\ UNCHANGED <<stampTable, clock>>
           /\ IF last_stamp.tag = "Some" /\ last_stamp.val.in_out = in_out
              THEN /\ result' = IF in_out = In THEN "AlreadyCheckedIn"
                                               ELSE "AlreadyCheckedOut"
                   /\ UNCHANGED pc
              ELSE /\ result' = result
                   /\ pc' = [pc EXCEPT ![p] = Inserting(in_out)]

\* the rest of the call of process p: the stamp is created with the time
\* of now and inserted; after a check-out the previous stamp is read for
\* the worked time.
proc_insert(p) ==
    /\ pc[p].at = "insert"
    /\ HasRoom
    /\ LET r == insert(stampTable, Stamp(0, clock, pc[p].in_out))
           checkin == previous(r.conn, r.stamp)
       IN /\ stampTable' = r.conn
          /\ stamp' = Some(r.stamp)
          /\ work_time' = IF pc[p].in_out = Out /\ checkin.tag = "Some"
                          THEN Some(delta(checkin.val, r.stamp))
                          ELSE None
    /\ op' = IF pc[p].in_out = In THEN "do_checkin" ELSE "do_checkout"
    /\ result' = "Ok"
    /\ resume' = None
    /\ visited' = <<>>
    /\ pc' = [pc EXCEPT ![p] = Idle]
    /\ UNCHANGED clock

\* Several processes run check-in and check-out on the same database file,
\* statement by statement, in any order.
NextConcurrent ==
    \/ \E p \in Procs : proc_guard(p)
    \/ \E p \in Procs : proc_insert(p)
    \/ Tick

SpecConcurrent == Init /\ [][NextConcurrent]_vars

----------------------------------------------------------------------------
(* The ledger as the properties read it *)

\* the identities of the stored events
Ids == DOMAIN stampTable

\* the direction of the stored event i
DirectionOf(tbl, i) == IF tbl[i].in_out \in SpelledIn THEN In ELSE Out

\* the timestamp of the stored event i
TimeOf(tbl, i) == parse_from_rfc3339(tbl[i].datetime)

\* the ledger is not empty and its event of the largest identity has
\* direction d
LastIs(tbl, d) ==
    /\ DOMAIN tbl # {}
    /\ DirectionOf(tbl, Max(DOMAIN tbl)) = d

----------------------------------------------------------------------------
(* Properties *)

\* C1: a check-in directly after a successful check-in fails with
\* AlreadyCheckedIn, a check-out directly after a successful check-out fails
\* with AlreadyCheckedOut, and the failed call leaves the ledger as it was.
C1_SecondCallRejected ==
    [][/\ (op = "do_checkin" /\ result = "Ok" /\ do_checkin)
            => (result' = "AlreadyCheckedIn" /\ stampTable' = stampTable)
       /\ (op = "do_checkout" /\ result = "Ok" /\ do_checkout)
            => (result' = "AlreadyCheckedOut" /\ stampTable' = stampTable)
      ]_vars

\* C1 witness: a check-in was rejected on a ledger that ends with a check-in.
C1_Witness ==
    /\ op = "do_checkin"
    /\ result = "AlreadyCheckedIn"
    /\ LastIs(stampTable, In)

\* C2: check-in succeeds exactly when the ledger is empty or its event of the
\* largest identity is a check-out; on success the one new event is a
\* check-in; otherwise the call fails with AlreadyCheckedIn.
C2_CheckInGuard ==
    [][do_checkin =>
        LET allowed == Ids = {} \/ LastIs(stampTable, Out)
        IN /\ (result' = "Ok") <=> allowed
           /\ allowed =>
                \E n \in DOMAIN stampTable' \ Ids :
                    /\ DOMAIN stampTable' = Ids \cup {n}
                    /\ DirectionOf(stampTable', n) = In
                    /\ stamp' = Some(Stamp(n, clock, In))
           /\ ~allowed =>
                /\ result' = "AlreadyCheckedIn"
                /\ stampTable' = stampTable
      ]_vars

\* C2 witness: a check-in succeeded on a ledger that ended with a check-out.
C2_Witness ==
    /\ op = "do_checkin"
    /\ result = "Ok"
    /\ Cardinality(Ids) >= 2
    /\ DirectionOf(stampTable, Max(Ids)) = In
    /\ DirectionOf(stampTable, Max(Ids \ {Max(Ids)})) = Out

\* C3 as claimed: check-out is rejected with AlreadyCheckedOut, and writes
\* nothing, unless the last event of the ledger is a check-in; so it is
\* rejected on an empty ledger.
C3_AsClaimed ==
    [][do_checkout =>
        /\ (result' = "Ok") <=> LastIs(stampTable, In)
        /\ ~LastIs(stampTable, In) =>
              (result' = "AlreadyCheckedOut" /\ stampTable' = stampTable)
      ]_vars

\* C3: check-out is rejected with AlreadyCheckedOut, and writes nothing,
\* exactly when the ledger is not empty and its last event is a check-out;
\* on an empty ledger and after a check-in it succeeds and stores one
\* check-out.
C3_CheckOutGuard ==
    [][do_checkout =>
        LET rejected == LastIs(stampTable, Out)
        IN /\ (result' = "AlreadyCheckedOut") <=> rejected
           /\ rejected => stampTable' = stampTable
           /\ ~rejected =>
                /\ result' = "Ok"
                /\ \E n \in DOMAIN stampTable' \ Ids :
                      /\ DOMAIN stampTable' = Ids \cup {n}
                      /\ DirectionOf(stampTable', n) = Out
      ]_vars

\* C3 witness: a check-out was rejected on a ledger that ends with a
\* check-out.
C3_Witness ==
    /\ op = "do_checkout"
    /\ result = "AlreadyCheckedOut"
    /\ LastIs(stampTable, Out)

\* C4: on the empty ledger of a new database, check-out as the first
\* operation succeeds.
C4_FirstCheckOutSucceeds ==
    [][(op = "new" /\ Ids = {} /\ do_checkout) => result' = "Ok"]_vars

\* C4 witness: the only event of the ledger is the check-out that the first
\* call stored.
C4_Witness ==
    /\ op = "do_checkout"
    /\ result = "Ok"
    /\ Ids = {1}
    /\ DirectionOf(stampTable, 1) = Out
    /\ stamp = Some(Stamp(1, clock, Out))

\* the sum of check-out time minus check-in time over the first n cycles
\* of a ledger whose events 2k-1 and 2k are the k-th check-in and check-out
RECURSIVE CycleSum(_, _)
CycleSum(tbl, n) ==
    IF n = 0 THEN 0
    ELSE CycleSum(tbl, n - 1) + (TimeOf(tbl, 2 * n) - TimeOf(tbl, 2 * n - 1))

\* the ledger is n complete cycles: identities 1..2n, check-in at the odd
\* ones, check-out at the even ones
IsCycles(tbl, n) ==
    /\ DOMAIN tbl = 1..(2 * n)
    /\ \A i \in DOMAIN tbl :
          DirectionOf(tbl, i) = (IF i % 2 = 1 THEN In ELSE Out)

\* C5 as claimed: the ledger read in identity order alternates check-in,
\* check-out, ... and its first event is a check-in.
C5_AsClaimed ==
    \A i \in Ids :
        /\ 1..i \subseteq Ids
        /\ DirectionOf(stampTable, i) = (IF i % 2 = 1 THEN In ELSE Out)

\* C5: the ledger read in identity order alternates, starting with the
\* direction of its first event: the events at odd positions have the
\* direction of event 1 and the events at even positions the other one
\* (event 1 is a check-out when the first successful call was a check-out).
C5_AlternatesFromFirst ==
    \A i \in Ids :
        /\ 1..i \subseteq Ids
        /\ (DirectionOf(stampTable, i) = DirectionOf(stampTable, 1))
             <=> (i % 2 = 1)

\* C5 witness: a ledger of four events that starts with a check-out.
C5_Witness ==
    /\ Ids = 1..4
    /\ DirectionOf(stampTable, 1) = Out
    /\ DirectionOf(stampTable, 4) = In

\* C6: a successful check-in or check-out adds exactly one event and leaves
\* every event stored before as it was.
C6_AppendsOne ==
    [][((do_checkin \/ do_checkout) /\ result' = "Ok") =>
        /\ Cardinality(DOMAIN stampTable') = Cardinality(Ids) + 1
        /\ Ids \subseteq DOMAIN stampTable'
        /\ \A i \in Ids : stampTable'[i] = stampTable[i]
      ]_vars

\* C6 witness: a successful call on a ledger that already held two events.
C6_Witness ==
    /\ op \in {"do_checkin", "do_checkout"}
    /\ result = "Ok"
    /\ Cardinality(Ids) = 3
    /\ stamp.val.id = Max(Ids)

\* C7: on a ledger of N >= 1 complete cycles the total since the epoch is
\* the sum of the N differences check-out minus check-in, whatever time
\* lies between one cycle and the next.
C7_TotalOfCycles ==
    \A n \in 1..MaxId :
        IsCycles(stampTable, n) =>
            get_total_from(stampTable, Epoch) = CycleSum(stampTable, n)

\* C7 witness: two cycles of non-zero length with time between them.
C7_Witness ==
    /\ IsCycles(stampTable, 2)
    /\ TimeOf(stampTable, 1) < TimeOf(stampTable, 2)
    /\ TimeOf(stampTable, 2) < TimeOf(stampTable, 3)
    /\ TimeOf(stampTable, 3) < TimeOf(stampTable, 4)
    /\ op = "do_list"
    /\ resume.val.week_total = CycleSum(stampTable, 2)

IsRun(tbl, start, run) ==
    /\ \A k \in 1..Len(run) :
          /\ start + k - 1 \in DOMAIN tbl
          /\ run[k] = Stamp(start + k - 1,
                             TimeOf(tbl, start + k - 1),
                             DirectionOf(tbl, start + k - 1))
    /\ start + Len(run) \notin DOMAIN tbl

\* C10: the iteration from an identity yields the events of that identity
\* and the following ones in order and ends at the first missing identity;
\* on a ledger of N events with contiguous identities the iteration from
\* the first event yields N events, the last of them the last event.
C10_IterationRun ==
    /\ \A start \in 0..(MaxId + 1) :
          IsRun(stampTable, start, StampIterator(stampTable, start))
    /\ op = "iter" => IsRun(stampTable, stamp.val.id, visited)
    /\ (Ids # {} /\ Ids = Min(Ids)..Max(Ids)) =>
          LET run == StampIterator(stampTable, Min(Ids))
          IN /\ Len(run) = Cardinality(Ids)
             /\ run[Len(run)].id = Max(Ids)

\* C10 witness: an iteration that yielded an event and ended at a missing
\* identity with an event stored beyond it.
C10_Witness ==
    /\ op = "iter"
    /\ Len(visited) >= 1
    /\ \E i \in Ids : i > visited[Len(visited)].id

\* the stored event i as a Stamp
EventOf(tbl, i) == Stamp(i, TimeOf(tbl, i), DirectionOf(tbl, i))

\* the last operation stored the stamp it left in memory
Inserted ==
    /\ op \in {"do_checkin", "do_checkout", "insert"}
    /\ result = "Ok"

\* C11: the event read by identity is the event stored: after an insert
\* that returned identity i, byId(i) is an event with identity i and the
\* timestamp and direction that were inserted; byId of an identity that no
\* stored event has fails with NoSuchEntry.
C11_ByIdReflectsLedger ==
    /\ Inserted =>
          /\ stamp.val.date <= clock
          /\ get(stampTable, stamp.val.id) = Ok(stamp.val)
    /\ \A i \in Ids : get(stampTable, i) = Ok(EventOf(stampTable, i))
    /\ \A i \in 0..(MaxId + 1) \ Ids :
          get(stampTable, i) = Err("NoSuchEntry")

\* C11 witness: a stamp with a sub-second timestamp was inserted into a
\* ledger that has a missing identity below it.
C11_Witness ==
    /\ Inserted
    /\ stamp.val.date % MicrosPerSec # 0
    /\ \E i \in 1..stamp.val.id : i \notin Ids

\* C12: an insert gives the new event the largest stored identity plus one,
\* or 1 on an empty ledger, never 0; an insert directly after an insert
\* that got k gets k + 1.
C12_NextIdentity ==
    [][((do_checkin \/ do_checkout) /\ result' = "Ok") =>
        /\ stamp'.val.id = (IF Ids = {} THEN 1 ELSE Max(Ids) + 1)
        /\ stamp'.val.id # 0
        /\ stamp'.val.id \in DOMAIN stampTable' \ Ids
        /\ Inserted => stamp'.val.id = stamp.val.id + 1
      ]_vars

\* C12 witness: an insert after administrative deletes: the new event got
\* identity 3 on a ledger whose first event is gone.
C12_Witness ==
    /\ Inserted
    /\ stamp.val.id = 3
    /\ Ids = {2, 3}

\* C13: with check-in and check-out only, the stored identities are
\* exactly 1..N for a ledger of N events.
C13_DenseIdentities == Ids = 1..Cardinality(Ids)

\* C13 witness: a ledger that grew to three events, the last one stored by
\* the last call.
C13_Witness ==
    /\ Cardinality(Ids) = 3
    /\ Inserted
    /\ stamp.val.id = 3

\* C14 (as claimed): first() is the stored event with the smallest
\* identity whenever the ledger is non-empty, and None only on an empty
\* ledger, deletes included.
C14_AsClaimed ==
    /\ Ids # {} => first(stampTable) = Some(EventOf(stampTable, Min(Ids)))
    /\ first(stampTable) = None => Ids = {}

\* C15: last() is the stored event with the largest identity whenever the
\* ledger is non-empty, and None, not a failure, on an empty ledger.
C15_LastIsLargest ==
    /\ Ids # {} => last(stampTable) = Some(EventOf(stampTable, Max(Ids)))
    /\ Ids = {} => last(stampTable) = None
    /\ (Inserted /\ stamp.val.id \in Ids) => stamp.val.id <= last(stampTable).val.id

\* C15 witness: a check-in was rejected on what last() returned, on a
\* ledger with a missing identity whose largest event is a check-in and
\* whose smallest is a check-out.
C15_Witness ==
    /\ op = "do_checkin"
    /\ result = "AlreadyCheckedIn"
    /\ Cardinality(Ids) >= 2
    /\ Ids # 1..Cardinality(Ids)
    /\ DirectionOf(stampTable, Min(Ids)) = Out
    /\ last(stampTable) = Some(EventOf(stampTable, Max(Ids)))

\* the identities of the stored events with a timestamp at or after t
AtOrAfter(tbl, t) == {i \in DOMAIN tbl : TimeOf(tbl, i) >= t}

\* C16: firstAtOrAfter(t) is the event with the smallest identity among
\* the stored events whose timestamp is >= t, and fails with NoSuchEntry
\* exactly when no stored event has a timestamp >= t.
C16_FirstAtOrAfter ==
    \A t \in Times :
        /\ AtOrAfter(stampTable, t) # {} =>
              get_after(stampTable, t) =
                  Ok(EventOf(stampTable, Min(AtOrAfter(stampTable, t))))
        /\ AtOrAfter(stampTable, t) = {} =>
              get_after(stampTable, t) = Err("NoSuchEntry")

\* C16 witness: two events at or after t where the one with the smaller
\* identity has the later timestamp, and it is the one returned; an event
\* stored with a sub-second timestamp equal to t is found as well.
C16_Witness ==
    /\ \E t \in Times : \E i, j \in AtOrAfter(stampTable, t) :
          /\ i < j
          /\ TimeOf(stampTable, j) < TimeOf(stampTable, i)
          /\ get_after(stampTable, t) = Ok(EventOf(stampTable, i))
    /\ \E t \in Times :
          /\ t % MicrosPerSec # 0
          /\ get_after(stampTable, t).tag = "Ok"
          /\ get_after(stampTable, t).val.date = t

\* the record last() looks up cannot be read back
LastMalformed ==
    /\ Ids # {}
    /\ get(stampTable, Max(Ids)) = Err("ParseError")

\* C17 (as claimed): when the last stored record is malformed at the moment
\* checkIn or checkOut looks up the last event, the operation fails with an
\* error and appends nothing; it is never treated as an empty ledger.
C17_AsClaimed ==
    [][(LastMalformed /\ (do_checkin \/ do_checkout)) =>
        /\ result' # "Ok"
        /\ stampTable' = stampTable
      ]_vars

\* the identities the iteration started at firstAtOrAfter(from) visits:
\* from the smallest identity with a timestamp >= from, up to the first
\* missing identity
Window(tbl, from) ==
    LET found == AtOrAfter(tbl, from)
    IN IF found = {} THEN {}
       ELSE LET f == Min(found)
            IN {i \in DOMAIN tbl : i >= f /\ \A k \in f..i : k \in DOMAIN tbl}

\* the closed intervals of the window, each named by the identity of its
\* check-in: a CheckIn followed, at the next identity, by a CheckOut
ClosedPairs(tbl, from) ==
    LET w == Window(tbl, from)
    IN {i \in w : /\ i + 1 \in w
                  /\ DirectionOf(tbl, i) = In
                  /\ DirectionOf(tbl, i + 1) = Out}

\* C18 (as claimed): for every reachable ledger, updates of a timestamp
\* included, and every from, total(from) is non-negative, and zero when the
\* window has no closed interval.
C18_AsClaimed ==
    \A from \in Times :
        LET total == get_total_from(stampTable, from)
        IN /\ total >= 0
           /\ ClosedPairs(stampTable, from) = {} => total = 0

\* C18 (amended): total(from) is zero when the window has no closed
\* interval, and non-negative when every closed interval of the window
\* has its check-out no earlier than its check-in.
C18_NonNegativeWhenOrdered ==
    \A from \in Times :
        LET total == get_total_from(stampTable, from)
            pairs == ClosedPairs(stampTable, from)
        IN /\ pairs = {} => total = 0
           /\ (\A i \in pairs :
                   TimeOf(stampTable, i + 1) >= TimeOf(stampTable, i)) =>
                 total >= 0

\* C18 witness: a ledger with an updated timestamp that is later than the
\* timestamp of the next event, and a closed interval, in order, that
\* gives a positive total.
C18_Witness ==
    /\ \E i \in Ids : i + 1 \in Ids
                       /\ TimeOf(stampTable, i) > TimeOf(stampTable, i + 1)
    /\ ClosedPairs(stampTable, Epoch) # {}
    /\ \A i \in ClosedPairs(stampTable, Epoch) :
          TimeOf(stampTable, i + 1) >= TimeOf(stampTable, i)
    /\ get_total_from(stampTable, Epoch) > 0

\* the absolute value of an integer
Abs(n) == IF n < 0 THEN 0 - n ELSE n

\* C19: delta is symmetric and non-negative: for any two events a and b,
\* a.delta(b) = b.delta(a) = |a.timestamp - b.timestamp|, whatever their
\* identities and directions.
C19_DeltaSymmetric ==
    /\ \A i, j \in Ids :
          LET a == EventOf(stampTable, i)
              b == EventOf(stampTable, j)
          IN /\ delta(a, b) = delta(b, a)
             /\ delta(a, b) = Abs(a.date - b.date)
             /\ delta(a, b) >= 0
    /\ (op = "do_checkout" /\ result = "Ok" /\ work_time.tag = "Some") =>
          work_time.val =
              Abs(stamp.val.date - TimeOf(stampTable, stamp.val.id - 1))

\* C19 witness: two stored events of the same direction where the one with
\* the smaller identity has the later timestamp, at a distance above zero.
C19_Witness ==
    \E i, j \in Ids :
        /\ i < j
        /\ TimeOf(stampTable, i) > TimeOf(stampTable, j)
        /\ DirectionOf(stampTable, i) = DirectionOf(stampTable, j)
        /\ delta(EventOf(stampTable, i), EventOf(stampTable, j)) > 0

\* the time of the closed intervals named by pairs, added up
RECURSIVE PairsSum(_, _)
PairsSum(tbl, pairs) ==
    IF pairs = {} THEN 0
    ELSE LET i == CHOOSE p \in pairs : TRUE
         IN (TimeOf(tbl, i + 1) - TimeOf(tbl, i)) + PairsSum(tbl, pairs \ {i})

\* C20: on a ledger with any sequence of directions, total(from) is a
\* duration, never a failure, and equals the sum of curr - prev over
\* exactly the identity-adjacent pairs (prev, curr) visited by the
\* iteration from firstAtOrAfter(from) with prev a CheckIn and curr a
\* CheckOut; the other pairs add nothing.
C20_TotalOfClosedPairs ==
    \A from \in Times :
        LET total == get_total_from(stampTable, from)
        IN /\ total \in Int
           /\ total = PairsSum(stampTable, ClosedPairs(stampTable, from))

\* C20 witness: a ledger that breaks the alternation with two check-outs
\* in a row after a check-in, at three different instants, so that only
\* the first check-out closes an interval.
C20_Witness ==
    \E i \in Ids :
        /\ i + 2 \in Ids
        /\ DirectionOf(stampTable, i) = In
        /\ DirectionOf(stampTable, i + 1) = Out
        /\ DirectionOf(stampTable, i + 2) = Out
        /\ TimeOf(stampTable, i) < TimeOf(stampTable, i + 1)
        /\ TimeOf(stampTable, i + 1) < TimeOf(stampTable, i + 2)
        /\ get_total_from(stampTable, Epoch) =
              TimeOf(stampTable, i + 1) - TimeOf(stampTable, i)

\* the step changes total(from) for some from
TotalChanges ==
    /\ stampTable' # stampTable
    /\ \E from \in Times :
          get_total_from(stampTable', from) # get_total_from(stampTable, from)

\* C21: an open session contributes zero: a successful check-in leaves
\* total(from) unchanged for every from, and among check-in and check-out
\* calls the total changes only in a successful check-out.
C21_OpenSessionIsZero ==
    [][/\ (do_checkin /\ result' = "Ok") => ~TotalChanges
       /\ (TotalChanges /\ op' # "delete") =>
             (op' = "do_checkout" /\ result' = "Ok")
      ]_vars

\* C21 witness: a check-in stored after a closed interval of positive
\* length, later than the check-out before it, is the last event.
C21_Witness ==
    /\ op = "do_checkin"
    /\ result = "Ok"
    /\ stamp.val.id = Max(Ids)
    /\ stamp.val.id - 1 \in Ids
    /\ TimeOf(stampTable, stamp.val.id - 1) < stamp.val.date
    /\ get_total_from(stampTable, Epoch) > 0
    /\ clock > stamp.val.date

\* the identities of the stored check-ins
CheckIns(tbl) == {i \in DOMAIN tbl : DirectionOf(tbl, i) = In}

Alternating(tbl) ==
    \A i \in DOMAIN tbl :
        i + 1 \in DOMAIN tbl => DirectionOf(tbl, i) # DirectionOf(tbl, i + 1)

\* the timestamps do not decrease along the identities
NonDecreasing(tbl) ==
    \A i, j \in DOMAIN tbl : i < j => TimeOf(tbl, i) <= TimeOf(tbl, j)

\* the closed intervals of the ledger whose check-in is at or after from
IntervalsFrom(tbl, from) ==
    {i \in DOMAIN tbl : /\ i + 1 \in DOMAIN tbl
                         /\ DirectionOf(tbl, i) = In
                         /\ DirectionOf(tbl, i + 1) = Out
                         /\ TimeOf(tbl, i) >= from}

\* the closed interval of check-in i spans from: it starts before from and
\* ends at or after it
Spans(tbl, i, from) ==
    /\ i \in DOMAIN tbl
    /\ i + 1 \in DOMAIN tbl
    /\ DirectionOf(tbl, i) = In
    /\ DirectionOf(tbl, i + 1) = Out
    /\ TimeOf(tbl, i) < from
    /\ from <= TimeOf(tbl, i + 1)

C24_NoAdjacentSame ==
    /\ Alternating(stampTable)
    /\ \A i \in Ids : i > 1 => i - 1 \in Ids

\* C24 witness: three calls at the same instant left check-in, check-out,
\* check-in, the last of them stored by the last call.
C24_Witness ==
    /\ op = "do_checkin"
    /\ result = "Ok"
    /\ stamp.val.id = 3
    /\ DirectionOf(stampTable, 1) = In
    /\ DirectionOf(stampTable, 2) = Out
    /\ TimeOf(stampTable, 1) = TimeOf(stampTable, 3)

\* C25 (as claimed): the look-up of the last event and the insert act as
\* one atomic step: with the statements of two processes interleaved, the
\* guard still holds when the insert runs, so no check-in is stored right
\* after a check-in and no check-out right after a check-out.
C25_AsClaimed ==
    [][\A p \in Procs :
          proc_insert(p) => ~LastIs(stampTable, pc[p].in_out)
      ]_vars

\* C26 (as claimed): the hours, minutes and seconds reported after a
\* successful check-out decompose the worked duration of S whole seconds:
\* minutes and seconds are in 0..59 and
\* hours * 3600 + minutes * 60 + seconds = S.
C26_AsClaimed ==
    (op = "do_checkout" /\ result = "Ok" /\ work_time.tag = "Some") =>
        LET S == num_seconds(work_time.val)
            shown == worked_figures(work_time.val)
        IN /\ shown.minutes \in 0..59
           /\ shown.seconds \in 0..59
           /\ shown.hours * 3600 + shown.minutes * 60 + shown.seconds = S

====
